---- MODULE Spec2Model ----
(***************************************************************************)
(* JamCamping stage navigation.                                            *)
(*                                                                         *)
(* The repository holds two drafts of the JamCampingApp class that a page  *)
(* can load:                                                               *)
(*   - src/unnamed/part_002: the animation-locked navigator (isAnimating,  *)
(*     600 ms reset timer, analytics events, rubber-band drag offset);     *)
(*   - src/unnamed/part_001: the documented navigator (no lock, browser    *)
(*     history mirroring through updateURL).                               *)
(* The variable `script` records which draft the page runs; definitions    *)
(* translated from part_001 carry the suffix _p1.                          *)
(*                                                                         *)
(* JavaScript numbers: NaN (and the arithmetic value of `undefined`) is    *)
(* the sentinel NaN below; every arithmetic and comparison operator        *)
(* follows IEEE semantics for it (NaN propagates, comparisons are false).  *)
(***************************************************************************)
EXTENDS Integers, Sequences, FiniteSets, TLC

\* ------------------------------------------------------------------ bounds
\* Longest analytics event list explored (this.events is unbounded).
MaxEvents == 2
\* Longest browser history explored (history.pushState is unbounded).
MaxHistory == 3
\* longest projects.json and products.json arrays
MaxProjects == 11
MaxShop == 3
\* projects that can be put into the cart
MaxCartProjects == 2
\* longest this.events explored while the cart is used
MaxCartEvents == 3
\* most projects in the search index
MaxIndexed == 2
\* install events and fetch events explored (a browser sets no limit)
MaxInstalls == 3
MaxFetches == 3
\* longest stored list of offline actions, and sync events explored
MaxQueue == 3
MaxSyncs == 2

\* --------------------------------------------------------- JS number model
\* parseInt of a missing or non-numeric attribute; undefined in arithmetic.
NaN == 999999
undefined == NaN

IsNaN(a) == a = NaN
Sub(a, b) == IF IsNaN(a) \/ IsNaN(b) THEN NaN ELSE a - b
Add(a, b) == IF IsNaN(a) \/ IsNaN(b) THEN NaN ELSE a + b
Abs(a) == IF IsNaN(a) THEN NaN ELSE IF a < 0 THEN -a ELSE a
Gt(a, b) == ~IsNaN(a) /\ ~IsNaN(b) /\ a > b
Lt(a, b) == ~IsNaN(a) /\ ~IsNaN(b) /\ a < b
Ge(a, b) == ~IsNaN(a) /\ ~IsNaN(b) /\ a >= b

\* ------------------------------------------------------- program constants
stages == <<"main", "vendor", "chill", "submit", "contact">>
\* this.stages[i]: undefined for anything that is not an index of the array
StageName(i) == IF i \in 0..(Len(stages) - 1) THEN stages[i + 1] ELSE "undefined"
\* stages.indexOf(name): -1 when absent
IndexOf(name) ==
    IF \E i \in 1..Len(stages) : stages[i] = name
    THEN (CHOOSE i \in 1..Len(stages) : stages[i] = name) - 1
    ELSE -1

\* window.innerWidth in px (one viewport; the drag offset divides by it)
innerWidth == 400
\* Offsets are held exactly as numerators over OffsetDen, in vw:
\* offset_vw = transform / OffsetDen.
OffsetDen == 10 * innerWidth

\* ------------------------------------------------------------------ inputs
Scripts == {"part_001", "part_002"}
\* clientX of a touch point, px: differences 0, 10, 50 and 60
Xs == {100, 110, 160}
\* clientY of a touch point, px.  Only currentY - startY is ever read, and
\* only by touchmove after it has written currentY, so touches start on one
\* row and move within it or off it.
StartYs == {100}
Ys == {100, 200}
\* Date.now() readings, ms.  Only Date.now() - startTime is ever read, so a
\* gesture starts at one reading and ends 0, 20 or 200 ms after it.
StartTimes == {1000}
EndTimes == {1000, 1020, 1200}
\* arguments reaching goToStage: in range, out of range, NaN
StageArgs == (-1..Len(stages)) \cup {NaN}
\* values of parseInt(dataset.stage) for the elements matching [data-stage]:
\* a menu link, and an element whose attribute is missing or a stage name
DataStageValues == {3, NaN}
Keys == {"ArrowLeft", "l", "1", "5", "Escape"}
Hashes == {"", "chill", "nowhere"}

VARIABLES
    script,         \* which draft of JamCampingApp the page runs
    currentStage,   \* this.currentStage
    isAnimating,    \* this.isAnimating (part_002)
    events,         \* this.events: the events trackEvent pushed
    localEvents,    \* the list stored under jamcamping-events
    resetTimers,    \* pending setTimeout(..., 600) callbacks of goToStage
    transform,      \* container.style.transform, translateX numerator
    startX, startY, startTime,   \* closure variables of the touch handlers
    currentX, currentY,
    isDragging,
    finger,         \* the browser's touch sequence: "up", "down", "moved"
    history,        \* session history entries' state.stage (part_001)
    historyPos,     \* index of the current history entry
    projects,       \* this.projects
    shopItems,      \* this.shopItems
    loadPc,         \* position of loadData: "fetch", "parseProjects",
                    \* "parseShop", then "loaded" (the try block ran to its
                    \* end) or "fallback" (the catch block ran)
    loadError,      \* the error loadData's catch block caught ("" for none)
    searchInput,    \* value of #searchInput handed to handleSearch
    results,        \* what searchContent returned in the last handleSearch
                    \* (<<>> when handleSearch returned before calling it)
    resultsHTML,    \* #searchResults: "" (cleared), "none" (the no-results
                    \* message) or "list" (the rendered results)
    searchError,    \* what the last handleSearch raised: "" (nothing),
                    \* "TypeError" or "SyntaxError"
    cart,           \* this.cart
    cartStorage,    \* the value stored under jamcamping-cart: whether there
                    \* is one, and the items of its JSON text
    cartBadge,      \* #cartBadge textContent
    checkoutDisabled,  \* #checkoutBtn disabled
    cartItems,      \* #cartItems: the ids of the rendered items (<<>> is the
                    \* "Your cart is empty" markup)
    cartPc,         \* "init" until init() has reached updateCartBadge,
                    \* then "ready"
    caches,         \* the origin's CacheStorage: the caches in creation
                    \* order, each a name and its stored responses
    activeWorker,   \* the service worker that handles fetch and sync events
    waitingWorker,  \* a worker that has installed and not yet activated
    installs,       \* install events so far (numbers the workers)
    fetches,        \* fetch events so far
    served,         \* what the last fetch event was answered with
    localStorageDefined,  \* whether the global scope running sw.js has a
                    \* localStorage (a ServiceWorkerGlobalScope has none)
    offlineStorage, \* the list stored under jamcamping-offline-actions
    syncPc,         \* handleBackgroundSync: "idle", "loop", "done"
    offlineActions, \* the rest of the array its for loop iterates
    processed,      \* the actions the loop has handled, with their outcome
    syncStart,      \* the stored list when the sync event arrived
    syncs           \* sync events so far

navVars == <<currentStage, isAnimating, events, localEvents, resetTimers,
            transform>>
touchVars == <<startX, startY, startTime, currentX, currentY, isDragging>>
histVars == <<history, historyPos>>
searchVars == <<projects, shopItems, loadPc, loadError, searchInput, results,
                resultsHTML, searchError>>
cartVars == <<cart, cartStorage, cartBadge, checkoutDisabled, cartItems, cartPc>>
cacheVars == <<caches, activeWorker, waitingWorker, installs, fetches, served>>
syncVars == <<localStorageDefined, offlineStorage, syncPc, offlineActions,
              processed, syncStart, syncs>>
workerVars == <<cacheVars, syncVars>>
vars == <<script, currentStage, isAnimating, events, localEvents, resetTimers,
          transform,
          startX, startY, startTime, currentX, currentY, isDragging, finger,
          history, historyPos, projects, shopItems, loadPc, loadError,
          searchInput, results, resultsHTML, searchError, cart, cartStorage,
          cartBadge, checkoutDisabled, cartItems, cartPc,
          caches, activeWorker, waitingWorker, installs, fetches, served,
          localStorageDefined, offlineStorage, syncPc, offlineActions,
          processed, syncStart, syncs>>

\* The navigation state after construction: stage 0, nothing in flight.
\* The initial history entry carries no state object ("main" by its URL).
\* The search box is empty and nothing has been searched.
InitNavigation ==
    /\ currentStage = 0
    /\ isAnimating = FALSE
    /\ events = <<>>
    /\ resetTimers = 0
    /\ transform = 0
    /\ startX = undefined /\ startY = undefined /\ startTime = undefined
    /\ currentX = undefined /\ currentY = undefined
    /\ isDragging = FALSE
    /\ finger = "up"
    /\ history = <<"main">>
    /\ historyPos = 1
    /\ searchInput = <<>>
    /\ results = <<>>
    /\ resultsHTML = ""
    /\ searchError = ""

\* A page whose visitor has no stored cart, init() done
InitNoCart ==
    /\ cart = <<>>
    /\ cartStorage = [present |-> FALSE, items |-> <<>>]
    /\ cartBadge = 0
    /\ checkoutDisabled = TRUE
    /\ cartItems = <<>>
    /\ cartPc = "ready"

\* ------------------------------------------- service worker: absent values
\* caches.match resolving to undefined; a response that never arrived
NoResponse == [url |-> "", status |-> 0, type |-> "undefined", worker |-> 0]
\* no service worker in that role
NoWorker == [version |-> "none", number |-> 0]
\* no fetch event handled yet
NoFetch ==
    [request |-> [url |-> "", path |-> <<>>, sameOrigin |-> TRUE,
                  mode |-> "none"],
     worker |-> 0, online |-> TRUE, handled |-> FALSE, network |-> FALSE,
     source |-> "none", response |-> NoResponse, rejected |-> FALSE]

\* A page no service worker controls, and an empty offline queue
InitNoWorker ==
    /\ caches = <<>>
    /\ activeWorker = NoWorker
    /\ waitingWorker = NoWorker
    /\ installs = 0
    /\ fetches = 0
    /\ served = NoFetch
    /\ localStorageDefined = TRUE
    /\ offlineStorage = <<>>
    /\ syncPc = "idle"
    /\ offlineActions = <<>>
    /\ processed = <<>>
    /\ syncStart = <<>>
    /\ syncs = 0

\* The page as the navigation handlers find it: either draft, init() done,
\* loadData having fallen back to an empty catalog (the repository holds no
\* products.json).
Init ==
    /\ InitNoCart
    /\ script \in Scripts
    /\ InitNavigation
    /\ localEvents = <<>>
    /\ projects = <<>> /\ shopItems = <<>>
    /\ loadPc = "fallback"
    /\ loadError = "Failed to fetch data"
    /\ InitNoWorker

\* =================================================== part_002: navigator
\* -currentStage * 100 vw, as a numerator over OffsetDen
RestOffset(stage) == IF IsNaN(stage) THEN NaN ELSE -stage * 100 * OffsetDen

\* getRubberBandDampening with the two boundaries exchanged
getRubberBandDampening_Swapped(deltaX) ==
    LET isAtBoundary ==
            \/ (Lt(deltaX, 0) /\ currentStage = 0)
            \/ (Gt(deltaX, 0) /\ currentStage = Len(stages) - 1)
    IN IF isAtBoundary THEN 3 ELSE 10

\* part_002 getRubberBandDampening, in tenths (0.3 -> 3, 1 -> 10)
getRubberBandDampening(deltaX) ==
    LET isAtBoundary ==
            \/ (Gt(deltaX, 0) /\ currentStage = 0)
            \/ (Lt(deltaX, 0) /\ currentStage = Len(stages) - 1)
    IN IF isAtBoundary THEN 3 ELSE 10

\* part_002 updateStagePosition(offset): the new translateX numerator
\* currentOffset + offset / innerWidth * 100 * dampening
updateStagePosition(offset) ==
    IF IsNaN(offset) \/ IsNaN(currentStage) THEN NaN
    ELSE RestOffset(currentStage) + offset * 100 * getRubberBandDampening(offset)

\* NavEvent with from_stage and to_stage exchanged
NavEvent_Swapped(previousStage, stageIndex) ==
    [from_stage |-> StageName(stageIndex),
     to_stage |-> StageName(previousStage),
     stage_index |-> stageIndex]

\* The stage_navigation event goToStage hands to trackEvent
NavEvent(previousStage, stageIndex) ==
    [from_stage |-> StageName(previousStage),
     to_stage |-> StageName(stageIndex),
     stage_index |-> stageIndex]

\* "Keep only last 100 events" in storeEventLocally
MaxLocalEvents == 100

\* part_002 storeEventLocally(event), dropping the newest events instead
storeEventLocally_KeepOldest(event) ==
    LET pushed == Append(localEvents, event)
    IN localEvents' = IF Len(pushed) > MaxLocalEvents
                      THEN SubSeq(pushed, 1, MaxLocalEvents)
                      ELSE pushed

\* part_002 storeEventLocally(event): push, then splice(0, length - 100)
storeEventLocally(event) ==
    LET pushed == Append(localEvents, event)
    IN localEvents' = IF Len(pushed) > MaxLocalEvents
                      THEN SubSeq(pushed, Len(pushed) - MaxLocalEvents + 1, Len(pushed))
                      ELSE pushed

\* part_002 trackEvent(eventName, parameters).  trackOk is false when it
\* raises after this.events.push (gtag, or JSON.parse or localStorage.setItem
\* in storeEventLocally): nothing is stored then.
trackEvent(event, trackOk) ==
    /\ events' = Append(events, event)
    /\ IF trackOk THEN storeEventLocally(event) ELSE UNCHANGED localEvents

\* goToStageRejects without the isAnimating test
goToStageRejects_NoLock(stageIndex) ==
    Lt(stageIndex, 0) \/ Ge(stageIndex, Len(stages))

\* The guard of goToStage: true when the call returns at once
goToStageRejects(stageIndex) ==
    Lt(stageIndex, 0) \/ Ge(stageIndex, Len(stages)) \/ isAnimating

\* part_002 goToStage(stageIndex).  When trackEvent raises, the statements
\* after it, the setTimeout among them, are never reached.
goToStage(stageIndex, trackOk) ==
    IF goToStageRejects(stageIndex)
    THEN UNCHANGED navVars
    ELSE /\ Len(events) < MaxEvents
         /\ isAnimating' = TRUE
         /\ currentStage' = stageIndex
         /\ transform' = RestOffset(stageIndex)
         /\ trackEvent(NavEvent(currentStage, stageIndex), trackOk)
         /\ resetTimers' = IF trackOk THEN resetTimers + 1 ELSE resetTimers

snapToCurrentStage(trackOk) == goToStage(currentStage, trackOk)

\* nextStage wrapping from the last stage to the first
nextStage_Wrap(trackOk) ==
    IF Lt(currentStage, Len(stages) - 1)
    THEN goToStage(Add(currentStage, 1), trackOk)
    ELSE goToStage(0, trackOk)

nextStage(trackOk) ==
    IF Lt(currentStage, Len(stages) - 1)
    THEN goToStage(Add(currentStage, 1), trackOk)
    ELSE snapToCurrentStage(trackOk)

previousStage(trackOk) ==
    IF Gt(currentStage, 0)
    THEN goToStage(Sub(currentStage, 1), trackOk)
    ELSE snapToCurrentStage(trackOk)

\* The setTimeout callback of goToStage
ResetTimer ==
    /\ script = "part_002"
    /\ resetTimers > 0
    /\ resetTimers' = resetTimers - 1
    /\ isAnimating' = FALSE
    /\ UNCHANGED <<script, currentStage, events, localEvents, transform, finger>>
    /\ UNCHANGED touchVars /\ UNCHANGED histVars
    /\ UNCHANGED searchVars /\ UNCHANGED cartVars /\ UNCHANGED workerVars

\* window.app.goToStage(x): the public method, any argument
ApiGoToStage(x, trackOk) ==
    /\ script = "part_002"
    /\ goToStage(x, trackOk)
    /\ UNCHANGED <<script, finger>> /\ UNCHANGED touchVars /\ UNCHANGED histVars
    /\ UNCHANGED searchVars /\ UNCHANGED cartVars /\ UNCHANGED workerVars

\* click on an element matching [data-stage]: parseInt(e.target.dataset.stage)
ClickDataStage(stage, trackOk) ==
    /\ script = "part_002"
    /\ goToStage(stage, trackOk)
    /\ UNCHANGED <<script, finger>> /\ UNCHANGED touchVars /\ UNCHANGED histVars
    /\ UNCHANGED searchVars /\ UNCHANGED cartVars /\ UNCHANGED workerVars

\* window resize
handleResize(trackOk) ==
    /\ script = "part_002"
    /\ snapToCurrentStage(trackOk)
    /\ UNCHANGED <<script, finger>> /\ UNCHANGED touchVars /\ UNCHANGED histVars
    /\ UNCHANGED searchVars /\ UNCHANGED cartVars /\ UNCHANGED workerVars

\* hashchange / load listeners
HashChange(hash, trackOk) ==
    /\ script = "part_002"
    /\ IF hash # "" /\ IndexOf(hash) >= 0
       THEN goToStage(IndexOf(hash), trackOk)
       ELSE UNCHANGED navVars
    /\ UNCHANGED <<script, finger>> /\ UNCHANGED touchVars /\ UNCHANGED histVars
    /\ UNCHANGED searchVars /\ UNCHANGED cartVars /\ UNCHANGED workerVars

\* parseInt(e.key) for the number keys
KeyDigit(key) ==
    CASE key = "1" -> 1 [] key = "2" -> 2 [] key = "3" -> 3
      [] key = "4" -> 4 [] key = "5" -> 5 [] OTHER -> NaN

\* part_002 handleKeyboard(e); inField: e.target is an INPUT or TEXTAREA
handleKeyboard(key, inField, trackOk) ==
    /\ script = "part_002"
    /\ IF ~inField /\ key \in {"ArrowLeft", "h"} THEN previousStage(trackOk)
       ELSE IF ~inField /\ key \in {"ArrowRight", "l"} THEN nextStage(trackOk)
       ELSE IF key \in {"1", "2", "3", "4", "5"}
            THEN goToStage(Sub(KeyDigit(key), 1), trackOk)
       ELSE UNCHANGED navVars
    /\ UNCHANGED <<script, finger>> /\ UNCHANGED touchVars /\ UNCHANGED histVars
    /\ UNCHANGED searchVars /\ UNCHANGED cartVars /\ UNCHANGED workerVars

\* --------------------------------------- part_002: setupGestureNavigation
\* Math.abs(deltaX) / deltaTime > 0.3, exactly: x/0 is Infinity for x > 0
\* and NaN for x = 0
velocityExceeds(deltaX, deltaTime) ==
    /\ ~IsNaN(deltaX) /\ ~IsNaN(deltaTime)
    /\ IF deltaTime = 0 THEN Abs(deltaX) > 0
       ELSE 10 * Abs(deltaX) > 3 * deltaTime

\* shouldNavigate with the two tests joined by && instead of ||
shouldNavigate_And(deltaX, deltaTime) ==
    Gt(Abs(deltaX), 50) /\ velocityExceeds(deltaX, deltaTime)

\* the test of touchend: Math.abs(deltaX) > 50 || velocity > 0.3
shouldNavigate(deltaX, deltaTime) ==
    Gt(Abs(deltaX), 50) \/ velocityExceeds(deltaX, deltaTime)

\* the test of touchmove: only horizontal swipes move the container
isHorizontalMove(deltaX, deltaY) ==
    Gt(Abs(deltaX), Abs(deltaY)) /\ Gt(Abs(deltaX), 10)

\* touchstart listener; x, y the touch point, now the Date.now() reading
TouchStart(x, y, now) ==
    /\ script = "part_002"
    /\ finger = "up"
    /\ finger' = "down"
    /\ IF isAnimating
       THEN UNCHANGED touchVars
       ELSE /\ startX' = x /\ startY' = y /\ startTime' = now
            /\ isDragging' = TRUE
            /\ UNCHANGED <<currentX, currentY>>
    /\ UNCHANGED script /\ UNCHANGED navVars /\ UNCHANGED histVars
    /\ UNCHANGED searchVars /\ UNCHANGED cartVars /\ UNCHANGED workerVars

\* touchmove listener
TouchMove(x, y) ==
    /\ script = "part_002"
    /\ finger # "up"
    /\ finger' = "moved"
    /\ IF ~isDragging \/ isAnimating
       THEN UNCHANGED <<currentX, currentY, transform>>
       ELSE /\ currentX' = x /\ currentY' = y
            /\ IF isHorizontalMove(Sub(x, startX), Sub(y, startY))
               THEN transform' = updateStagePosition(Sub(x, startX))
               ELSE UNCHANGED transform
    /\ UNCHANGED <<script, currentStage, isAnimating, events, localEvents,
                   resetTimers>>
    /\ UNCHANGED <<startX, startY, startTime, isDragging>> /\ UNCHANGED histVars
    /\ UNCHANGED searchVars /\ UNCHANGED cartVars /\ UNCHANGED workerVars

\* touchend listener; now the Date.now() reading, never before startTime
TouchEnd(now, trackOk) ==
    /\ script = "part_002"
    /\ finger # "up"
    /\ finger' = "up"
    /\ IF ~isDragging
       THEN UNCHANGED navVars /\ UNCHANGED isDragging
       ELSE /\ Ge(now, startTime)
            /\ isDragging' = FALSE
            /\ LET deltaX == Sub(currentX, startX)
                   deltaTime == Sub(now, startTime)
               IN IF shouldNavigate(deltaX, deltaTime)
                  THEN IF Gt(deltaX, 0) THEN previousStage(trackOk)
                                        ELSE nextStage(trackOk)
                  ELSE snapToCurrentStage(trackOk)
    /\ UNCHANGED <<startX, startY, startTime, currentX, currentY>>
    /\ UNCHANGED script /\ UNCHANGED histVars
    /\ UNCHANGED searchVars /\ UNCHANGED cartVars /\ UNCHANGED workerVars

\* =================================================== part_001: navigator
\* history.pushState({stage: stageName}, '', newURL) with the browser at
\* entry pos: drops the entries after pos and appends a new current entry
pushState(pos, stageName) ==
    /\ pos < MaxHistory
    /\ history' = Append(SubSeq(history, 1, pos), stageName)
    /\ historyPos' = pos + 1

\* part_001 updateURL, called from a handler of the page
updateURL(stage) == pushState(historyPos, StageName(stage))

\* part_001 goToStage(index), the browser being at history entry pos
goToStageAt_p1(index, pos) ==
    IF Ge(index, 0) /\ Lt(index, Len(stages)) /\ index # currentStage
    THEN /\ currentStage' = index
         /\ transform' = RestOffset(index)
         /\ pushState(pos, StageName(index))
    ELSE /\ UNCHANGED <<currentStage, transform, history>>
         /\ historyPos' = pos

\* part_001 goToStage(index), called from a handler of the page
goToStage_p1(index) == goToStageAt_p1(index, historyPos)

\* part_001 nextStage()
nextStage_p1 ==
    IF Lt(currentStage, Len(stages) - 1)
    THEN /\ currentStage' = currentStage + 1
         /\ transform' = RestOffset(currentStage + 1)
         /\ updateURL(currentStage + 1)
    ELSE UNCHANGED <<currentStage, transform, history, historyPos>>

\* part_001 previousStage()
previousStage_p1 ==
    IF Gt(currentStage, 0)
    THEN /\ currentStage' = currentStage - 1
         /\ transform' = RestOffset(currentStage - 1)
         /\ updateURL(currentStage - 1)
    ELSE UNCHANGED <<currentStage, transform, history, historyPos>>

\* what no part_001 handler touches
lockVars == <<isAnimating, events, localEvents, resetTimers>>

\* window.app.goToStage(x), and the .stage-indicator click (x its index)
ApiGoToStage_p1(x) ==
    /\ script = "part_001"
    /\ goToStage_p1(x)
    /\ UNCHANGED <<script, finger>> /\ UNCHANGED touchVars /\ UNCHANGED lockVars
    /\ UNCHANGED searchVars /\ UNCHANGED cartVars /\ UNCHANGED workerVars

\* click on an element matching [data-stage]: parseInt(link.dataset.stage)
ClickDataStage_p1(stage) ==
    /\ script = "part_001"
    /\ goToStage_p1(stage)
    /\ UNCHANGED <<script, finger>> /\ UNCHANGED touchVars /\ UNCHANGED lockVars
    /\ UNCHANGED searchVars /\ UNCHANGED cartVars /\ UNCHANGED workerVars

\* part_001 handleKeyboardNavigation(e)
handleKeyboardNavigation(key, inField) ==
    /\ script = "part_001"
    /\ IF inField THEN UNCHANGED <<currentStage, transform, history, historyPos>>
       ELSE IF key \in {"ArrowLeft", "h"} THEN previousStage_p1
       ELSE IF key \in {"ArrowRight", "l"} THEN nextStage_p1
       ELSE IF key \in {"1", "2", "3", "4", "5"}
                /\ Lt(Sub(KeyDigit(key), 1), Len(stages))
            THEN goToStage_p1(Sub(KeyDigit(key), 1))
       ELSE UNCHANGED <<currentStage, transform, history, historyPos>>
    /\ UNCHANGED <<script, finger>> /\ UNCHANGED touchVars /\ UNCHANGED lockVars
    /\ UNCHANGED searchVars /\ UNCHANGED cartVars /\ UNCHANGED workerVars

\* the load listener: a stage named by the URL hash
LoadHash_p1(hash) ==
    /\ script = "part_001"
    /\ IF hash # "" /\ IndexOf(hash) >= 0
       THEN goToStage_p1(IndexOf(hash))
       ELSE UNCHANGED <<currentStage, transform, history, historyPos>>
    /\ UNCHANGED <<script, finger>> /\ UNCHANGED touchVars /\ UNCHANGED lockVars
    /\ UNCHANGED searchVars /\ UNCHANGED cartVars /\ UNCHANGED workerVars

\* Steps the Back and Forward buttons take through the session history
Traversals == {-1, 1}

\* The browser moves delta entries and dispatches popstate with the state
\* object of the entry it arrives at: null for the initial entry, which no
\* pushState created.  The popstate listener calls goToStage for a state
\* that names a stage.
PopState(delta) ==
    /\ script = "part_001"
    /\ historyPos + delta \in 1..Len(history)
    /\ LET pos == historyPos + delta
           state == IF pos = 1 THEN "null" ELSE history[pos]
       IN IF state # "null" /\ IndexOf(state) >= 0
          THEN goToStageAt_p1(IndexOf(state), pos)
          ELSE /\ historyPos' = pos
               /\ UNCHANGED <<currentStage, transform, history>>
    /\ UNCHANGED <<script, finger>> /\ UNCHANGED touchVars /\ UNCHANGED lockVars
    /\ UNCHANGED searchVars /\ UNCHANGED cartVars /\ UNCHANGED workerVars

\* ------------------------------------------- part_001: setupTouchGestures
\* the test of touchend: Math.abs(deltaX) > 50 || velocity > 0.3
shouldNavigate_p1(deltaX, deltaTime) ==
    \/ Gt(Abs(deltaX), 50)
    \/ /\ ~IsNaN(deltaX) /\ ~IsNaN(deltaTime)
       /\ IF deltaTime = 0 THEN Abs(deltaX) > 0
          ELSE 10 * Abs(deltaX) > 3 * deltaTime

\* touchstart listener
TouchStart_p1(x, y, now) ==
    /\ script = "part_001"
    /\ finger = "up"
    /\ finger' = "down"
    /\ startX' = x /\ startY' = y /\ startTime' = now
    /\ isDragging' = TRUE
    /\ UNCHANGED <<currentX, currentY>>
    /\ UNCHANGED script /\ UNCHANGED navVars /\ UNCHANGED histVars
    /\ UNCHANGED searchVars /\ UNCHANGED cartVars /\ UNCHANGED workerVars

\* touchmove listener (its only other effect is e.preventDefault())
TouchMove_p1(x, y) ==
    /\ script = "part_001"
    /\ finger # "up"
    /\ finger' = "moved"
    /\ IF ~isDragging
       THEN UNCHANGED <<currentX, currentY>>
       ELSE currentX' = x /\ currentY' = y
    /\ UNCHANGED <<startX, startY, startTime, isDragging>>
    /\ UNCHANGED script /\ UNCHANGED navVars /\ UNCHANGED histVars
    /\ UNCHANGED searchVars /\ UNCHANGED cartVars /\ UNCHANGED workerVars

\* touchend listener
TouchEnd_p1(now) ==
    /\ script = "part_001"
    /\ finger # "up"
    /\ finger' = "up"
    /\ IF ~isDragging
       THEN UNCHANGED <<currentStage, transform, history, historyPos, isDragging>>
       ELSE /\ Ge(now, startTime)
            /\ isDragging' = FALSE
            /\ LET deltaX == Sub(currentX, startX)
                   deltaTime == Sub(now, startTime)
               IN IF shouldNavigate_p1(deltaX, deltaTime)
                  THEN IF Gt(deltaX, 0) THEN previousStage_p1 ELSE nextStage_p1
                  ELSE UNCHANGED <<currentStage, transform, history, historyPos>>
    /\ UNCHANGED <<startX, startY, startTime, currentX, currentY>>
    /\ UNCHANGED script /\ UNCHANGED lockVars
    /\ UNCHANGED searchVars /\ UNCHANGED cartVars /\ UNCHANGED workerVars

Next ==
    \/ ResetTimer
    \/ \E x \in StageArgs, ok \in BOOLEAN : ApiGoToStage(x, ok)
    \/ \E v \in DataStageValues, ok \in BOOLEAN : ClickDataStage(v, ok)
    \/ \E ok \in BOOLEAN : handleResize(ok)
    \/ \E h \in Hashes, ok \in BOOLEAN : HashChange(h, ok)
    \/ \E k \in Keys, f \in BOOLEAN, ok \in BOOLEAN : handleKeyboard(k, f, ok)
    \/ \E x \in Xs, y \in StartYs, t \in StartTimes : TouchStart(x, y, t)
    \/ \E x \in Xs, y \in Ys : TouchMove(x, y)
    \/ \E t \in EndTimes, ok \in BOOLEAN : TouchEnd(t, ok)
    \/ \E x \in StageArgs : ApiGoToStage_p1(x)
    \/ \E v \in DataStageValues : ClickDataStage_p1(v)
    \/ \E k \in Keys, f \in BOOLEAN : handleKeyboardNavigation(k, f)
    \/ \E h \in Hashes : LoadHash_p1(h)
    \/ \E delta \in Traversals : PopState(delta)
    \/ \E x \in Xs, y \in StartYs, t \in StartTimes : TouchStart_p1(x, y, t)
    \/ \E x \in Xs, y \in Ys : TouchMove_p1(x, y)
    \/ \E t \in EndTimes : TouchEnd_p1(t)

Spec == Init /\ [][Next]_vars

\* ======================================================== part_001: search
\* Strings are sequences of one-character strings.
\* String.prototype.toLowerCase, on the letters the catalog below uses
Lower(c) == CASE c = "A" -> "a" [] c = "B" -> "b" [] OTHER -> c

toLowerCase(str) == [i \in DOMAIN str |-> Lower(str[i])]

\* String.prototype.includes: searchString occurs at some position
includes(str, searchString) ==
    \E i \in 0..(Len(str) - Len(searchString)) :
        SubSeq(str, i + 1, i + Len(searchString)) = searchString

\* Records of projects.json: title and description always present, category
\* optional (hasCategory FALSE is a record without the field).
ProjectPool ==
    << [title |-> <<"A","b">>, description |-> <<"a","b"," ","a">>,
        hasCategory |-> TRUE, category |-> <<"a","b">>],
       [title |-> <<"a","b">>, description |-> <<"b","a">>,
        hasCategory |-> FALSE, category |-> <<>>],
       [title |-> <<"b","a">>, description |-> <<"a"," ","b">>,
        hasCategory |-> TRUE, category |-> <<"b">>],
       [title |-> <<"b","b">>, description |-> <<"A","b">>,
        hasCategory |-> FALSE, category |-> <<>>],
       [title |-> <<"b","(">>, description |-> <<"b","b">>,
        hasCategory |-> TRUE, category |-> <<"A","B">>],
       [title |-> <<"a","B">>, description |-> <<"b","b">>,
        hasCategory |-> TRUE, category |-> <<>>] >>

\* Records of products.json
ShopPool ==
    << [title |-> <<"a","b">>, description |-> <<"a","b">>,
        hasCategory |-> FALSE, category |-> <<>>],
       [title |-> <<"b","a">>, description |-> <<"a","b">>,
        hasCategory |-> TRUE, category |-> <<"a","b">>],
       [title |-> <<"a"," ","b">>, description |-> <<"b">>,
        hasCategory |-> FALSE, category |-> <<>>] >>

\* A JSON array of n records taken from pool starting after record k; the ids
\* are distinct.
ArrayOf(pool, n, k) ==
    [i \in 1..n |->
        LET rec == pool[((k + i - 1) % Len(pool)) + 1]
        IN [id |-> i, title |-> rec.title, description |-> rec.description,
            hasCategory |-> rec.hasCategory, category |-> rec.category]]

\* Bodies the two fetches can deliver
ProjectsFiles ==
    {ArrayOf(ProjectPool, n, k) : n \in 0..MaxProjects, k \in 0..(Len(ProjectPool) - 1)}

ShopFiles ==
    {ArrayOf(ShopPool, n, k) : n \in 0..MaxShop, k \in 0..(Len(ShopPool) - 1)}

\* Outcomes of one fetch(): resolved with response.ok, resolved with a
\* response that is not ok, rejected
FetchOutcomes == {"ok", "notOk", "reject"}

\* Values the search box can hold
Queries ==
    { <<>>, <<"a">>, <<" "," ">>, <<"a"," ">>, <<"a","b">>, <<"A","B">>,
      <<"b","a">>, <<"b","b">>, <<"b","(">>, <<"b"," ","a">> }

\* ----------------------------------------------------- part_001: loadData
\* catch (error) { this.projects = []; this.shopItems = []; }
catchBlock_ShopOnly(error) ==
    /\ loadError' = error
    /\ shopItems' = <<>>
    /\ UNCHANGED projects
    /\ loadPc' = "fallback"

catchBlock(error) ==
    /\ loadError' = error
    /\ projects' = <<>>
    /\ shopItems' = <<>>
    /\ loadPc' = "fallback"

\* loadData touches neither the navigation nor the search box
loadFrame ==
    /\ UNCHANGED <<searchInput, results, resultsHTML, searchError>>
    /\ UNCHANGED <<script, finger>> /\ UNCHANGED navVars
    /\ UNCHANGED touchVars /\ UNCHANGED histVars /\ UNCHANGED cartVars /\ UNCHANGED workerVars

\* await Promise.all([fetch(projects), fetch(products)]) and the ok test
LoadFetch(projectsOutcome, shopOutcome) ==
    /\ loadPc = "fetch"
    /\ loadFrame
    /\ IF projectsOutcome = "reject" \/ shopOutcome = "reject"
       THEN catchBlock("fetch rejected")
       ELSE IF projectsOutcome # "ok" \/ shopOutcome # "ok"
            THEN catchBlock("Failed to fetch data")
            ELSE /\ loadPc' = "parseProjects"
                 /\ UNCHANGED <<projects, shopItems, loadError>>

\* this.projects = await projectsResponse.json()
LoadParseProjects(parses, body) ==
    /\ loadPc = "parseProjects"
    /\ loadFrame
    /\ IF parses
       THEN /\ projects' = body /\ loadPc' = "parseShop"
            /\ UNCHANGED <<shopItems, loadError>>
       ELSE catchBlock("projects.json does not parse")

\* this.shopItems = await shopResponse.json()
LoadParseShop(parses, body) ==
    /\ loadPc = "parseShop"
    /\ loadFrame
    /\ IF parses
       THEN /\ shopItems' = body /\ loadPc' = "loaded"
            /\ UNCHANGED <<projects, loadError>>
       ELSE catchBlock("products.json does not parse")


\* ------------------------------------------------------- part_001: search
\* slice(0, 10) in searchContent
MaxResults == 10

\* item.category as a condition: undefined and "" are both falsy
categoryTruthy(item) == item.hasCategory /\ item.category # <<>>

\* part_001 calculateSearchScore(query, item).  threw: the call raised a
\* TypeError, which happens when toLowerCase is reached on a category that
\* is undefined.
calculateSearchScore_Max(query, item) ==
    LET title == toLowerCase(item.title)
        description == toLowerCase(item.description)
        t == IF includes(title, query) THEN 10 ELSE 0
        d == IF includes(description, query) THEN 5 ELSE 0
        c == IF categoryTruthy(item) /\ includes(toLowerCase(item.category), query)
             THEN 8 ELSE 0
        m == IF t >= d THEN t ELSE d
    IN [threw |-> categoryTruthy(item) /\ ~item.hasCategory,
        score |-> IF m >= c THEN m ELSE c]

calculateSearchScore_NoGuard(query, item) ==
    LET title == toLowerCase(item.title)
        description == toLowerCase(item.description)
        score0 == IF includes(title, query) THEN 10 ELSE 0
        score1 == score0 + IF includes(description, query) THEN 5 ELSE 0
        score2 == score1 + IF includes(toLowerCase(item.category), query)
                           THEN 8 ELSE 0
    IN [threw |-> ~item.hasCategory, score |-> score2]

calculateSearchScore(query, item) ==
    LET title == toLowerCase(item.title)
        description == toLowerCase(item.description)
        score0 == IF includes(title, query) THEN 10 ELSE 0
        score1 == score0 + IF includes(description, query) THEN 5 ELSE 0
        score2 == score1 + IF categoryTruthy(item)
                              /\ includes(toLowerCase(item.category), query)
                           THEN 8 ELSE 0
    IN [threw |-> categoryTruthy(item) /\ ~item.hasCategory, score |-> score2]

\* if (score > 0) results.push(...)
isPushed_Zero(score) == score >= 0

isPushed(score) == score > 0

\* one forEach of searchContent: the result objects pushed for one array
pushResults(items, type, queryLower) ==
    LET scored == [i \in DOMAIN items |->
                     [type |-> type, id |-> items[i].id,
                      title |-> items[i].title,
                      description |-> items[i].description,
                      score |-> calculateSearchScore(queryLower, items[i]).score]]
    IN SelectSeq(scored, LAMBDA r : isPushed(r.score))

\* Array.prototype.sort((a, b) => b.score - a.score), which is stable: an
\* insertion that puts each element behind those that do not sort after it
insertByScore_Unstable(sorted, r) ==
    LET n == Cardinality({i \in DOMAIN sorted : sorted[i].score > r.score})
    IN SubSeq(sorted, 1, n) \o <<r>> \o SubSeq(sorted, n + 1, Len(sorted))

insertByScore(sorted, r) ==
    LET n == Cardinality({i \in DOMAIN sorted : sorted[i].score >= r.score})
    IN SubSeq(sorted, 1, n) \o <<r>> \o SubSeq(sorted, n + 1, Len(sorted))

RECURSIVE sortByScore(_)
sortByScore(arr) ==
    IF arr = <<>> THEN <<>>
    ELSE insertByScore(sortByScore(SubSeq(arr, 1, Len(arr) - 1)), arr[Len(arr)])

\* Array.prototype.slice(0, end)
slice(arr, end) == SubSeq(arr, 1, IF Len(arr) < end THEN Len(arr) ELSE end)

\* the array searchContent sorts: projects first, then shop items
searchPool(query) ==
    pushResults(projects, "project", toLowerCase(query))
        \o pushResults(shopItems, "shop", toLowerCase(query))

\* some calculateSearchScore call of searchContent raises
searchContentThrows(query) ==
    \/ \E i \in DOMAIN projects :
          calculateSearchScore(toLowerCase(query), projects[i]).threw
    \/ \E i \in DOMAIN shopItems :
          calculateSearchScore(toLowerCase(query), shopItems[i]).threw

\* part_001 searchContent(query): its return value and what it leaves of
\* this.projects and this.shopItems
searchContent_NoSlice(query) ==
    /\ results' = sortByScore(searchPool(query))
    /\ UNCHANGED <<projects, shopItems>>

searchContent_SortsProjects(query) ==
    /\ results' = slice(sortByScore(searchPool(query)), MaxResults)
    /\ projects' = [i \in DOMAIN projects |-> projects[Len(projects) + 1 - i]]
    /\ UNCHANGED shopItems

searchContent(query) ==
    /\ results' = slice(sortByScore(searchPool(query)), MaxResults)
    /\ UNCHANGED <<projects, shopItems>>

\* new RegExp(source) raises a SyntaxError when the groups of source do not
\* nest: depth is the number of groups open so far
RECURSIVE groupsNest(_, _)
groupsNest(source, depth) ==
    IF source = <<>> THEN depth = 0
    ELSE IF Head(source) = "(" THEN groupsNest(Tail(source), depth + 1)
    ELSE IF Head(source) = ")" THEN depth > 0 /\ groupsNest(Tail(source), depth - 1)
    ELSE groupsNest(Tail(source), depth)

\* part_001 highlightQuery(text, query) raises: new RegExp(`(${query})`, 'gi')
highlightQueryThrows(query) == ~groupsNest(<<"(">> \o query \o <<")">>, 0)

\* part_001 displaySearchResults(results, query)
displaySearchResults(rs, query) ==
    IF Len(rs) = 0
    THEN resultsHTML' = "none" /\ searchError' = ""
    ELSE IF highlightQueryThrows(query)
         THEN searchError' = "SyntaxError" /\ UNCHANGED resultsHTML
         ELSE resultsHTML' = "list" /\ searchError' = ""

\* part_001 handleSearch(query)
handleSearch(query) ==
    IF query = <<>> \/ Len(query) < 2
    THEN /\ resultsHTML' = ""
         /\ results' = <<>>
         /\ searchError' = ""
         /\ UNCHANGED <<projects, shopItems>>
    ELSE IF searchContentThrows(query)
         THEN /\ searchError' = "TypeError"
              /\ UNCHANGED <<results, resultsHTML, projects, shopItems>>
         ELSE /\ searchContent(query)
              /\ displaySearchResults(results', query)

\* input listener of #searchInput, installed once loadData has returned
SearchInput(value) ==
    /\ loadPc \in {"loaded", "fallback"}
    /\ searchInput' = value
    /\ handleSearch(value)
    /\ UNCHANGED <<loadPc, loadError>>
    /\ UNCHANGED <<script, finger>> /\ UNCHANGED navVars
    /\ UNCHANGED touchVars /\ UNCHANGED histVars /\ UNCHANGED cartVars /\ UNCHANGED workerVars

\* The page from construction on, for the search: loadData, then typing.
InitSearch ==
    /\ InitNoCart
    /\ script = "part_001"
    /\ InitNavigation
    /\ localEvents = <<>>
    /\ projects = <<>> /\ shopItems = <<>>
    /\ loadPc = "fetch"
    /\ loadError = ""
    /\ InitNoWorker

NextSearch ==
    \/ \E p \in FetchOutcomes, q \in FetchOutcomes : LoadFetch(p, q)
    \/ \E ok \in BOOLEAN, body \in ProjectsFiles : LoadParseProjects(ok, body)
    \/ \E ok \in BOOLEAN, body \in ShopFiles : LoadParseShop(ok, body)
    \/ \E value \in Queries : SearchInput(value)

SpecSearch == InitSearch /\ [][NextSearch]_vars

\* ================================================= part_002: analytics log
\* Lengths of the list an earlier session left under jamcamping-events
PriorLengths == {0, 1, MaxLocalEvents - 2, MaxLocalEvents - 1, MaxLocalEvents}

\* The list an earlier session left: events with earlier timestamps
PriorLog(n) == [i \in 1..n |-> [event_name |-> "page_view", timestamp |-> i]]

\* event names handed to trackEvent
EventNames == {"help_opened", "cart_opened"}

\* Date.now() readings of this session
Timestamps == {1000, 1001}

\* a handler calls this.trackEvent(eventName), as openHelp does
TrackEvent(eventName, now, trackOk) ==
    /\ script = "part_002"
    /\ Len(events) < MaxEvents
    /\ trackEvent([event_name |-> eventName, timestamp |-> now], trackOk)
    /\ UNCHANGED <<script, finger, currentStage, isAnimating, resetTimers, transform>>
    /\ UNCHANGED touchVars /\ UNCHANGED histVars
    /\ UNCHANGED searchVars /\ UNCHANGED cartVars /\ UNCHANGED workerVars

\* The part_002 page of a visitor who has been here before
InitEvents ==
    /\ InitNoCart
    /\ script = "part_002"
    /\ InitNavigation
    /\ localEvents \in {PriorLog(n) : n \in PriorLengths}
    /\ projects = <<>> /\ shopItems = <<>>
    /\ loadPc = "fallback"
    /\ loadError = "Failed to fetch data"
    /\ InitNoWorker

NextEvents ==
    \E eventName \in EventNames, now \in Timestamps, trackOk \in BOOLEAN :
        TrackEvent(eventName, now, trackOk)

SpecEvents == InitEvents /\ [][NextEvents]_vars

\* ==================================================================== cart
\* projects.json records as addToCart reads them: image and the two parts
\* lists, prices in cents
CartCatalog ==
    [i \in 1..MaxCartProjects |->
        [id |-> i,
         title |-> ProjectPool[((i - 1) % Len(ProjectPool)) + 1].title,
         description |-> ProjectPool[((i - 1) % Len(ProjectPool)) + 1].description,
         hasCategory |-> FALSE, category |-> <<>>,
         image |-> "tent",
         functionalParts |-> << [price |-> 1299 * i, quantity |-> 8],
                                [price |-> 249, quantity |-> 12] >>,
         extravagantParts |-> << [price |-> 8999 * i, quantity |-> 2] >>]]

\* arguments of the rendered onclick="app.addToCart(id, type)" buttons, and
\* of a call for a project that is not loaded
ProjectIds == 1..(MaxCartProjects + 1)
BuildTypes == {"functional", "extravagant"}

\* `${projectId}-${buildType}`
cartId(projectId, buildType) == <<projectId, "-", buildType>>

ItemIds == {cartId(projectId, buildType) : projectId \in ProjectIds, buildType \in BuildTypes}

\* this.projects.find(p => p.id === projectId): the position of the record,
\* 0 when find returns undefined
findProject(projectId) ==
    LET found == {i \in DOMAIN projects : projects[i].id = projectId}
    IN IF found = {} THEN 0 ELSE CHOOSE i \in found : \A j \in found : i <= j

\* parts.reduce((sum, part) => sum + (part.price * part.quantity), 0)
RECURSIVE reduceTotal(_)
reduceTotal(parts) ==
    IF parts = <<>> THEN 0
    ELSE reduceTotal(SubSeq(parts, 1, Len(parts) - 1))
            + parts[Len(parts)].price * parts[Len(parts)].quantity

\* the cartItem object of addToCart (total is called price in part_002)
cartItem(project, projectId, buildType) ==
    [id |-> cartId(projectId, buildType),
     projectId |-> projectId,
     buildType |-> buildType,
     title |-> project.title,
     emoji |-> project.image,
     total |-> reduceTotal(IF buildType = "functional"
                           THEN project.functionalParts
                           ELSE project.extravagantParts)]

\* this.cart.findIndex(item => item.id === id), finding nothing
findIndex_Never(id) == 0

\* this.cart.findIndex(item => item.id === id): positions count from 1 here,
\* and 0 is the -1 of findIndex
findIndex(id) ==
    LET found == {i \in DOMAIN cart : cart[i].id = id}
    IN IF found = {} THEN 0 ELSE CHOOSE i \in found : \A j \in found : i <= j

\* JSON.stringify(this.cart): the members of each item in the order written
stringify(items) ==
    [i \in DOMAIN items |->
        <<items[i].id, items[i].projectId, items[i].buildType, items[i].title,
          items[i].emoji, items[i].total>>]

\* JSON.parse of such a text
parse(text) ==
    [i \in DOMAIN text |->
        [id |-> text[i][1], projectId |-> text[i][2], buildType |-> text[i][3],
         title |-> text[i][4], emoji |-> text[i][5], total |-> text[i][6]]]

\* JSON.parse(localStorage.getItem('jamcamping-cart') || '[]')
restoreCart(storage) == IF storage.present THEN parse(storage.items) ELSE <<>>

\* saveCart writing the cart as it was before the change
saveCart_Stale ==
    cartStorage' = [present |-> TRUE, items |-> stringify(cart)]

\* saveCart(), run after this.cart has changed
saveCart ==
    cartStorage' = [present |-> TRUE, items |-> stringify(cart')]

idsOf(items) == [i \in DOMAIN items |-> items[i].id]

\* part_001 updateCartBadge()
updateCartBadge_p1(items) == cartBadge' = Len(items)

\* part_001 updateCartDisplay()
updateCartDisplay(items) ==
    /\ cartItems' = idsOf(items)
    /\ checkoutDisabled' = (Len(items) = 0)

\* part_002 updateCartBadge(), which also sets the checkout button
updateCartBadge(items) ==
    /\ cartBadge' = Len(items)
    /\ checkoutDisabled' = (Len(items) = 0)

\* part_002 renderCartItems()
renderCartItems(items) == cartItems' = idsOf(items)

\* what the cart handlers leave alone
cartFrame ==
    /\ UNCHANGED <<script, finger, currentStage, isAnimating, resetTimers, transform>>
    /\ UNCHANGED touchVars /\ UNCHANGED histVars /\ UNCHANGED searchVars
    /\ UNCHANGED workerVars

cartData == <<cart, cartStorage, cartBadge, checkoutDisabled, cartItems>>

\* part_001 addToCart(projectId, buildType)
addToCart_p1(projectId, buildType) ==
    IF findProject(projectId) = 0
    THEN UNCHANGED cartData
    ELSE LET item == cartItem(projects[findProject(projectId)], projectId, buildType)
             existingIndex == findIndex(item.id)
         IN /\ cart' = IF existingIndex > 0
                       THEN [cart EXCEPT ![existingIndex] = item]
                       ELSE Append(cart, item)
            /\ saveCart
            /\ updateCartBadge_p1(cart')
            /\ updateCartDisplay(cart')

\* part_001 removeFromCart(itemId)
removeFromCart_p1(itemId) ==
    /\ cart' = SelectSeq(cart, LAMBDA item : item.id # itemId)
    /\ saveCart
    /\ updateCartBadge_p1(cart')
    /\ updateCartDisplay(cart')

\* part_002 addToCart(projectId, buildType)
addToCart(projectId, buildType, trackOk) ==
    IF findProject(projectId) = 0
    THEN UNCHANGED cartData /\ UNCHANGED <<events, localEvents>>
    ELSE LET item == cartItem(projects[findProject(projectId)], projectId, buildType)
             existingIndex == findIndex(item.id)
         IN IF existingIndex > 0
            THEN UNCHANGED cartData /\ UNCHANGED <<events, localEvents>>
            ELSE /\ Len(events) < MaxCartEvents
                 /\ cart' = Append(cart, item)
                 /\ saveCart
                 /\ updateCartBadge(cart')
                 /\ renderCartItems(cart')
                 /\ trackEvent([event_name |-> "add_to_cart",
                                project_id |-> projectId,
                                build_type |-> buildType,
                                price |-> item.total,
                                cart_size |-> Len(cart')], trackOk)

\* part_002 removeFromCart(itemId)
removeFromCart(itemId, trackOk) ==
    LET itemIndex == findIndex(itemId)
    IN IF itemIndex > 0
       THEN /\ Len(events) < MaxCartEvents
            /\ cart' = SubSeq(cart, 1, itemIndex - 1)
                          \o SubSeq(cart, itemIndex + 1, Len(cart))
            /\ saveCart
            /\ updateCartBadge(cart')
            /\ renderCartItems(cart')
            /\ trackEvent([event_name |-> "remove_from_cart",
                           project_id |-> cart[itemIndex].projectId,
                           build_type |-> cart[itemIndex].buildType,
                           cart_size |-> Len(cart')], trackOk)
       ELSE UNCHANGED cartData /\ UNCHANGED <<events, localEvents>>

\* part_001 init() from renderProjects on: "Restore cart state" is
\* updateCartBadge()
FinishInit_p1 ==
    /\ script = "part_001"
    /\ cartPc = "init"
    /\ cartPc' = "ready"
    /\ updateCartBadge_p1(cart)
    /\ UNCHANGED <<cart, cartStorage, checkoutDisabled, cartItems>>
    /\ UNCHANGED <<events, localEvents>>
    /\ cartFrame

\* part_002 init() from setupEventListeners on: updateCartBadge(), and the
\* page_view event at its end
FinishInit(trackOk) ==
    /\ script = "part_002"
    /\ cartPc = "init"
    /\ cartPc' = "ready"
    /\ updateCartBadge(cart)
    /\ trackEvent([event_name |-> "page_view"], trackOk)
    /\ UNCHANGED <<cart, cartStorage, cartItems>>
    /\ cartFrame

\* onclick="app.addToCart(...)" and onclick="app.removeFromCart(...)"
AddToCart_p1(projectId, buildType) ==
    /\ script = "part_001"
    /\ cartPc = "ready"
    /\ addToCart_p1(projectId, buildType)
    /\ UNCHANGED <<events, localEvents, cartPc>>
    /\ cartFrame

RemoveFromCart_p1(itemId) ==
    /\ script = "part_001"
    /\ cartPc = "ready"
    /\ removeFromCart_p1(itemId)
    /\ UNCHANGED <<events, localEvents, cartPc>>
    /\ cartFrame

AddToCart(projectId, buildType, trackOk) ==
    /\ script = "part_002"
    /\ cartPc = "ready"
    /\ addToCart(projectId, buildType, trackOk)
    /\ UNCHANGED cartPc
    /\ cartFrame

RemoveFromCart(itemId, trackOk) ==
    /\ script = "part_002"
    /\ cartPc = "ready"
    /\ removeFromCart(itemId, trackOk)
    /\ UNCHANGED cartPc
    /\ cartFrame

\* Values an earlier session can have left under jamcamping-cart: none, the
\* empty cart, carts of builds of the catalog
StoredCarts ==
    { [present |-> FALSE, items |-> <<>>],
      [present |-> TRUE, items |-> <<>>],
      [present |-> TRUE,
       items |-> stringify(<<cartItem(CartCatalog[1], 1, "functional")>>)],
      [present |-> TRUE,
       items |-> stringify(<<cartItem(CartCatalog[2], 2, "extravagant"),
                             cartItem(CartCatalog[1], 1, "functional")>>)] }

\* Either draft after the constructor and the data load, the page still
\* showing the markup of index.html
InitCart ==
    /\ script \in Scripts
    /\ InitNavigation
    /\ localEvents = <<>>
    /\ projects = CartCatalog /\ shopItems = <<>>
    /\ loadPc = "loaded"
    /\ loadError = ""
    /\ cartStorage \in StoredCarts
    /\ cart = restoreCart(cartStorage)
    /\ cartBadge = 0
    /\ checkoutDisabled = TRUE
    /\ cartItems = <<>>
    /\ cartPc = "init"
    /\ InitNoWorker

NextCart ==
    \/ FinishInit_p1
    \/ \E trackOk \in BOOLEAN : FinishInit(trackOk)
    \/ \E projectId \in ProjectIds, buildType \in BuildTypes :
          AddToCart_p1(projectId, buildType)
    \/ \E itemId \in ItemIds : RemoveFromCart_p1(itemId)
    \/ \E projectId \in ProjectIds, buildType \in BuildTypes, trackOk \in BOOLEAN :
          AddToCart(projectId, buildType, trackOk)
    \/ \E itemId \in ItemIds, trackOk \in BOOLEAN : RemoveFromCart(itemId, trackOk)

SpecCart == InitCart /\ [][NextCart]_vars

\* ================================================ part_002: indexed search
\* slice(0, 8) in performSearch
MaxIndexedResults == 8

\* what a template literal makes of a field: the text "undefined" for a
\* field the record does not have
interpolate(present, value) ==
    IF present THEN value ELSE <<"u","n","d","e","f","i","n","e","d">>

\* the difficulty field of projects.json records
Difficulties == << <<"a","a">>, <<"b">> >>

\* part_002 buildSearchIndex(): one index entry per project, then one per
\* shop item.  init() builds the index once, after the data load, and
\* nothing assigns the two arrays afterwards, so the index is this function
\* of them.
searchIndex ==
    [i \in DOMAIN projects |->
        [id |-> projects[i].id, type |-> "project",
         title |-> projects[i].title,
         description |-> projects[i].description,
         hasCategory |-> projects[i].hasCategory,
         category |-> projects[i].category,
         difficulty |-> Difficulties[((projects[i].id - 1) % Len(Difficulties)) + 1],
         searchText |->
            toLowerCase(projects[i].title \o <<" ">> \o projects[i].description
                \o <<" ">> \o interpolate(projects[i].hasCategory, projects[i].category)
                \o <<" ">> \o Difficulties[((projects[i].id - 1) % Len(Difficulties)) + 1])]]
    \o
    [i \in DOMAIN shopItems |->
        [id |-> shopItems[i].id, type |-> "shop",
         title |-> shopItems[i].title,
         description |-> shopItems[i].description,
         hasCategory |-> FALSE,
         category |-> <<>>,
         difficulty |-> <<>>,
         searchText |->
            toLowerCase(shopItems[i].title \o <<" ">> \o shopItems[i].description)]]

\* String.prototype.split(/\s+/): the pieces between runs of whitespace;
\* current is the piece being read, inSpace says the last character read
\* was whitespace
RECURSIVE splitFrom(_, _, _)
splitFrom(str, current, inSpace) ==
    IF str = <<>> THEN <<current>>
    ELSE IF Head(str) = " "
         THEN IF inSpace THEN splitFrom(Tail(str), current, TRUE)
              ELSE <<current>> \o splitFrom(Tail(str), <<>>, TRUE)
         ELSE splitFrom(Tail(str), Append(current, Head(str)), FALSE)

split(str) == splitFrom(str, <<>>, FALSE)

\* the four tests of performSearch for one word and one index entry
wordScore(item, word) ==
    (IF includes(toLowerCase(item.title), word) THEN 10 ELSE 0)
    + (IF includes(toLowerCase(item.description), word) THEN 5 ELSE 0)
    + (IF categoryTruthy(item) /\ includes(toLowerCase(item.category), word)
       THEN 8 ELSE 0)
    + (IF includes(item.searchText, word) THEN 3 ELSE 0)

\* queryWords.forEach(word => ...) for one index entry
RECURSIVE itemScore(_, _)
itemScore(item, queryWords) ==
    IF queryWords = <<>> THEN 0
    ELSE wordScore(item, Head(queryWords)) + itemScore(item, Tail(queryWords))

\* part_002 performSearch(query)
performSearch(query) ==
    LET queryWords == split(query)
        index == searchIndex
        scored == [i \in DOMAIN index |->
                     [type |-> index[i].type, id |-> index[i].id,
                      title |-> index[i].title,
                      description |-> index[i].description,
                      score |-> itemScore(index[i], queryWords)]]
    IN slice(sortByScore(SelectSeq(scored, LAMBDA r : r.score > 0)),
             MaxIndexedResults)

\* part_002 handleSearch(query); its displaySearchResults and highlightQuery
\* are those of part_001
handleSearch_p2(query, trackOk) ==
    IF query = <<>> \/ Len(query) < 2
    THEN /\ resultsHTML' = ""
         /\ results' = <<>>
         /\ searchError' = ""
         /\ UNCHANGED <<events, localEvents>>
    ELSE /\ results' = performSearch(toLowerCase(query))
         /\ displaySearchResults(results', query)
         /\ IF searchError' = ""
            THEN /\ Len(events) < MaxEvents
                 /\ trackEvent([event_name |-> "search_performed",
                                query |-> query,
                                results_count |-> Len(results')], trackOk)
            ELSE UNCHANGED <<events, localEvents>>

\* input listener of #searchInput in part_002
SearchInput_p2(value, trackOk) ==
    /\ script = "part_002"
    /\ searchInput' = value
    /\ handleSearch_p2(value, trackOk)
    /\ UNCHANGED <<projects, shopItems, loadPc, loadError>>
    /\ UNCHANGED <<script, finger, currentStage, isAnimating, resetTimers, transform>>
    /\ UNCHANGED touchVars /\ UNCHANGED histVars /\ UNCHANGED cartVars /\ UNCHANGED workerVars

\* Values the search box can hold: words the catalog has, a word the
\* catalog does not have, with and without whitespace around them
IndexedQueries ==
    { <<>>, <<"a","b">>, <<"a","a">>, <<"z","z">>, <<"z","z"," ">>,
      <<" ","z","z">>, <<"u","n">> }

\* The part_002 page with its data loaded and its index built
InitIndexedSearch ==
    /\ InitNoCart
    /\ script = "part_002"
    /\ InitNavigation
    /\ localEvents = <<>>
    /\ projects \in {ArrayOf(ProjectPool, n, k) :
                        n \in 0..MaxIndexed, k \in 0..(Len(ProjectPool) - 1)}
    /\ shopItems \in {ArrayOf(ShopPool, n, k) :
                        n \in 0..1, k \in 0..(Len(ShopPool) - 1)}
    /\ loadPc = "loaded"
    /\ loadError = ""
    /\ InitNoWorker

NextIndexedSearch ==
    \E value \in IndexedQueries, trackOk \in BOOLEAN : SearchInput_p2(value, trackOk)

SpecIndexedSearch == InitIndexedSearch /\ [][NextIndexedSearch]_vars

\* ================================================= public/sw.js: the caches
\* public/sw.js holds two service worker scripts: version 1.0.0 (twice, the
\* second copy differing in its log text only) and version 3.0.0.  A browser
\* installs the script it is served when it differs from the active worker's.
Versions == {"v1.0.0", "v3.0.0"}

\* version 1.0.0 (its CACHE_NAME 'jamcamping-v1.0.0' is never opened)
STATIC_CACHE == "jamcamping-static-v1.0.0"
DYNAMIC_CACHE == "jamcamping-dynamic-v1.0.0"
STATIC_FILES ==
    <<"/", "/css/style.css", "/js/main.js", "/data/projects.json",
      "/data/shop.json", "/manifest.json">>
\* version 3.0.0
CACHE_NAME == "jamcamping-cache-jamcamping-v3.0.0"

\* ---- CacheStorage
hasEntry(cache, url) == \E r \in cache.entries : r.url = url
\* caches.match(request): the entry of the first cache, in creation order,
\* that holds the URL; undefined when none does
caches_match(cs, url) ==
    IF \E i \in 1..Len(cs) : hasEntry(cs[i], url)
    THEN LET i == CHOOSE i \in 1..Len(cs) :
                      /\ hasEntry(cs[i], url)
                      /\ \A j \in 1..(i - 1) : ~hasEntry(cs[j], url)
         IN  CHOOSE r \in cs[i].entries : r.url = url
    ELSE NoResponse
\* caches.open(name) creates the cache when there is none of that name
caches_open(cs, name) ==
    IF \E i \in 1..Len(cs) : cs[i].name = name
    THEN cs
    ELSE Append(cs, [name |-> name, entries |-> {}])
\* cache.put(request, response) replaces the entry of that URL
cache_put(cs, name, response) ==
    [i \in 1..Len(cs) |->
        IF cs[i].name = name
        THEN [cs[i] EXCEPT !.entries =
                  {r \in @ : r.url # response.url} \cup {response}]
        ELSE cs[i]]

\* ---- requests and the network
isDefined(response) == response # NoResponse
\* url.pathname.startsWith('/api/'), the pathname held as its segments
startsWithApi(path) == Len(path) >= 2 /\ path[1] = "api"
\* The requests of a page: navigations to the root and to another page,
\* a pre-cached script, a hashed asset, an API call, a font of another origin
Requests ==
    { [url |-> "/", path |-> <<>>, sameOrigin |-> TRUE, mode |-> "navigate"],
      [url |-> "/shop", path |-> <<"shop">>, sameOrigin |-> TRUE,
       mode |-> "navigate"],
      [url |-> "/js/main.js", path |-> <<"js", "main.js">>,
       sameOrigin |-> TRUE, mode |-> "no-cors"],
      [url |-> "/assets/index-4f2a.js", path |-> <<"assets", "index-4f2a.js">>,
       sameOrigin |-> TRUE, mode |-> "cors"],
      [url |-> "/api/projects", path |-> <<"api", "projects">>,
       sameOrigin |-> TRUE, mode |-> "cors"],
      [url |-> "https://fonts.example/f.css", path |-> <<"f.css">>,
       sameOrigin |-> FALSE, mode |-> "cors"] }
\* What fetch(request) settles with: "offline" rejects; otherwise a response
\* status and type.  A same-origin request gets a basic response, or a cors
\* one when it was redirected to another origin; a request to another origin
\* gets a cors or an opaque (status 0) response.
Offline == [status |-> 0, type |-> "error"]
NetworkOutcomes(request) ==
    {Offline} \cup
    (IF request.sameOrigin
     THEN { [status |-> 200, type |-> "basic"],
            [status |-> 404, type |-> "basic"] } \cup
          (IF request.mode = "navigate" THEN {}
           ELSE { [status |-> 200, type |-> "cors"] })
     ELSE { [status |-> 200, type |-> "cors"],
            [status |-> 0, type |-> "opaque"] })
\* the Response object of a settled fetch, as the worker `number` got it
Response(request, net, number) ==
    [url |-> request.url, status |-> net.status, type |-> net.type,
     worker |-> number]

\* ---- install
\* version 1.0.0: cache.addAll(STATIC_FILES) stores every file or, when one
\* of them cannot be fetched, none, and the install fails
addAll(cs, name, urls, number) ==
    [i \in 1..Len(cs) |->
        IF cs[i].name = name
        THEN [cs[i] EXCEPT !.entries =
                  {r \in @ : \A k \in 1..Len(urls) : r.url # urls[k]} \cup
                  { [url |-> urls[k], status |-> 200, type |-> "basic",
                     worker |-> number] : k \in 1..Len(urls) }]
        ELSE cs[i]]

installFrame ==
    /\ UNCHANGED <<activeWorker, fetches, served>> /\ UNCHANGED syncVars
    /\ UNCHANGED <<script, finger>> /\ UNCHANGED navVars
    /\ UNCHANGED touchVars /\ UNCHANGED histVars /\ UNCHANGED searchVars
    /\ UNCHANGED cartVars

canInstall(version) ==
    /\ installs < MaxInstalls
    /\ waitingWorker = NoWorker
    /\ activeWorker.version # version

Install_v1(filesFetched) ==
    /\ canInstall("v1.0.0")
    /\ installs' = installs + 1
    /\ IF filesFetched
       THEN /\ caches' = addAll(caches_open(caches, STATIC_CACHE), STATIC_CACHE,
                                STATIC_FILES, installs + 1)
            /\ waitingWorker' = [version |-> "v1.0.0", number |-> installs + 1]
       ELSE /\ caches' = caches_open(caches, STATIC_CACHE)
            /\ UNCHANGED waitingWorker
    /\ installFrame

Install_v3 ==
    /\ canInstall("v3.0.0")
    /\ installs' = installs + 1
    /\ caches' = caches_open(caches, CACHE_NAME)
    /\ waitingWorker' = [version |-> "v3.0.0", number |-> installs + 1]
    /\ installFrame

\* ---- activate
\* The test of cacheNames.map's callback: the caches it deletes
isOld_v1(cacheName) == cacheName # STATIC_CACHE /\ cacheName # DYNAMIC_CACHE
isOld_v3_KeepAll(cacheName) == FALSE
isOld_v3(cacheName) == cacheName # CACHE_NAME

\* activate listener: caches.keys(), caches.delete of each old cache, then
\* clients.claim()
Activate ==
    /\ waitingWorker # NoWorker
    /\ caches' = IF waitingWorker.version = "v1.0.0"
                 THEN SelectSeq(caches, LAMBDA c : ~isOld_v1(c.name))
                 ELSE SelectSeq(caches, LAMBDA c : ~isOld_v3(c.name))
    /\ activeWorker' = waitingWorker
    /\ waitingWorker' = NoWorker
    /\ UNCHANGED <<installs, fetches, served>> /\ UNCHANGED syncVars
    /\ UNCHANGED <<script, finger>> /\ UNCHANGED navVars
    /\ UNCHANGED touchVars /\ UNCHANGED histVars /\ UNCHANGED searchVars
    /\ UNCHANGED cartVars

\* ---- fetch
\* what event.respondWith (or, unhandled, the browser) answered the page
Served(request, net, handled, network, source, response, rejected) ==
    [request |-> request, worker |-> activeWorker.number,
     online |-> net # Offline, handled |-> handled, network |-> network,
     source |-> source, response |-> response, rejected |-> rejected]

fetchFrame ==
    /\ UNCHANGED <<activeWorker, waitingWorker, installs>>
    /\ UNCHANGED syncVars
    /\ UNCHANGED <<script, finger>> /\ UNCHANGED navVars
    /\ UNCHANGED touchVars /\ UNCHANGED histVars /\ UNCHANGED searchVars
    /\ UNCHANGED cartVars

\* version 3.0.0: networkResponse && status === 200 && type === 'basic'
isCacheable_AnyStatus(response) ==
    isDefined(response) /\ response.type = "basic"
isCacheable(response) ==
    isDefined(response) /\ response.status = 200 /\ response.type = "basic"

\* version 3.0.0 fetch listener
fetch_v3(request, net) ==
    LET cachedResponse == caches_match(caches, request.url)
        networkResponse == Response(request, net, activeWorker.number)
    IN  IF ~request.sameOrigin
        THEN \* no respondWith: the browser fetches as if there were no worker
             /\ served' = Served(request, net, FALSE, TRUE, "network",
                                 IF net = Offline THEN NoResponse
                                 ELSE networkResponse, net = Offline)
             /\ UNCHANGED caches
        ELSE IF isDefined(cachedResponse)
        THEN /\ served' = Served(request, net, TRUE, FALSE, "cache",
                                 cachedResponse, FALSE)
             /\ UNCHANGED caches
        ELSE IF net # Offline
        THEN /\ caches' = IF isCacheable(networkResponse)
                          THEN cache_put(caches_open(caches, CACHE_NAME),
                                         CACHE_NAME, networkResponse)
                          ELSE caches
             /\ served' = Served(request, net, TRUE, TRUE, "network",
                                 networkResponse, FALSE)
        ELSE IF request.mode = "navigate"
        THEN \* the catch block: caches.match('/')
             /\ served' = Served(request, net, TRUE, TRUE, "cache",
                                 caches_match(caches, "/"), FALSE)
             /\ UNCHANGED caches
        ELSE \* throw new Error('Offline and no cache')
             /\ served' = Served(request, net, TRUE, TRUE, "none",
                                 NoResponse, TRUE)
             /\ UNCHANGED caches

\* version 1.0.0: !response || status !== 200 || type !== 'basic' returns
\* the response without caching it
isSkipped(response) ==
    ~isDefined(response) \/ response.status # 200 \/ response.type # "basic"

\* version 1.0.0 fetch listener: navigations, /api/ requests, static assets
fetch_v1(request, net) ==
    LET root == caches_match(caches, "/")
        cachedResponse == caches_match(caches, request.url)
        networkResponse == Response(request, net, activeWorker.number)
    IN  IF request.mode = "navigate"
        THEN /\ served' =
                  IF isDefined(root)
                  THEN Served(request, net, TRUE, FALSE, "cache", root, FALSE)
                  ELSE IF net # Offline
                  THEN Served(request, net, TRUE, TRUE, "network",
                              networkResponse, FALSE)
                  ELSE Served(request, net, TRUE, TRUE, "cache", root, FALSE)
             /\ UNCHANGED caches
        ELSE IF startsWithApi(request.path)
        THEN IF net # Offline
             THEN /\ caches' = IF networkResponse.status = 200
                               THEN cache_put(caches_open(caches, DYNAMIC_CACHE),
                                              DYNAMIC_CACHE, networkResponse)
                               ELSE caches
                  /\ served' = Served(request, net, TRUE, TRUE, "network",
                                      networkResponse, FALSE)
             ELSE /\ served' = Served(request, net, TRUE, TRUE, "cache",
                                      cachedResponse, FALSE)
                  /\ UNCHANGED caches
        ELSE IF isDefined(cachedResponse)
        THEN /\ served' = Served(request, net, TRUE, FALSE, "cache",
                                 cachedResponse, FALSE)
             /\ UNCHANGED caches
        ELSE IF net # Offline
        THEN /\ caches' = IF isSkipped(networkResponse)
                          THEN caches
                          ELSE cache_put(caches_open(caches, DYNAMIC_CACHE),
                                         DYNAMIC_CACHE, networkResponse)
             /\ served' = Served(request, net, TRUE, TRUE, "network",
                                 networkResponse, FALSE)
        ELSE \* the catch block rethrows
             /\ served' = Served(request, net, TRUE, TRUE, "none",
                                 NoResponse, TRUE)
             /\ UNCHANGED caches

\* A page the active worker controls makes a request
Fetch_v1(request, net) ==
    /\ activeWorker.version = "v1.0.0"
    /\ fetches < MaxFetches
    /\ fetches' = fetches + 1
    /\ fetch_v1(request, net)
    /\ fetchFrame

Fetch_v3(request, net) ==
    /\ activeWorker.version = "v3.0.0"
    /\ fetches < MaxFetches
    /\ fetches' = fetches + 1
    /\ fetch_v3(request, net)
    /\ fetchFrame

\* A browser that has not met the site: no worker, no caches
InitWorker ==
    /\ InitNoCart
    /\ script = "part_001"
    /\ InitNavigation
    /\ localEvents = <<>>
    /\ projects = <<>> /\ shopItems = <<>>
    /\ loadPc = "fallback"
    /\ loadError = "Failed to fetch data"
    /\ InitNoWorker

NextWorker ==
    \/ \E filesFetched \in BOOLEAN : Install_v1(filesFetched)
    \/ Install_v3
    \/ Activate
    \/ \E request \in Requests :
          \E net \in NetworkOutcomes(request) : Fetch_v1(request, net)
    \/ \E request \in Requests :
          \E net \in NetworkOutcomes(request) : Fetch_v3(request, net)

SpecWorker == InitWorker /\ [][NextWorker]_vars

\* ====================================== public/sw.js: background sync (v1.0.0)
\* action.type values: the three processOfflineAction knows, and another
ActionTypes == {"submit_project", "update_cart", "analytics_event", "other"}
\* The lists a page can have stored under jamcamping-offline-actions: up to
\* MaxQueue actions, their ids distinct
Queues ==
    UNION { { [i \in 1..n |-> [id |-> i, type |-> types[i]]] :
                types \in [1..n -> ActionTypes] } : n \in 0..MaxQueue }
SyncTags == {"background-sync", "periodic"}

\* getOfflineActions(): the stored list; [] when reading localStorage raises
\* (the ReferenceError of a scope that has no localStorage is caught)
getOfflineActions ==
    IF localStorageDefined THEN offlineStorage ELSE <<>>

\* processOfflineAction(action): the fetch of a known type settles as the
\* network lets it; an unknown type resolves at once
processOfflineAction(action, fetchOk) ==
    IF action.type \in {"submit_project", "update_cart", "analytics_event"}
    THEN fetchOk
    ELSE TRUE

\* removeOfflineAction(actionId): store the list without that id
removeOfflineAction(actionId) ==
    offlineStorage' =
        SelectSeq(getOfflineActions, LAMBDA action : action.id # actionId)

syncFrame ==
    /\ UNCHANGED localStorageDefined
    /\ UNCHANGED cacheVars
    /\ UNCHANGED <<script, finger>> /\ UNCHANGED navVars
    /\ UNCHANGED touchVars /\ UNCHANGED histVars /\ UNCHANGED searchVars
    /\ UNCHANGED cartVars

\* the sync listener up to the start of handleBackgroundSync's loop
SyncEvent(tag) ==
    /\ activeWorker.version = "v1.0.0"
    /\ syncPc \in {"idle", "done"}
    /\ syncs < MaxSyncs
    /\ syncs' = syncs + 1
    /\ IF tag = "background-sync"
       THEN /\ syncPc' = "loop"
            /\ offlineActions' = getOfflineActions
            /\ processed' = <<>>
            /\ syncStart' = offlineStorage
       ELSE UNCHANGED <<syncPc, offlineActions, processed, syncStart>>
    /\ UNCHANGED offlineStorage
    /\ syncFrame

\* one iteration of for (const action of offlineActions)
ProcessAction(fetchOk) ==
    /\ syncPc = "loop"
    /\ offlineActions # <<>>
    /\ LET action == Head(offlineActions)
           ok == processOfflineAction(action, fetchOk)
       IN  /\ IF ok THEN removeOfflineAction(action.id)
                    ELSE UNCHANGED offlineStorage
           /\ processed' = Append(processed, [id |-> action.id, ok |-> ok])
    /\ offlineActions' = Tail(offlineActions)
    /\ UNCHANGED <<syncPc, syncStart, syncs>>
    /\ syncFrame

\* the loop is over: handleBackgroundSync resolves
SyncDone ==
    /\ syncPc = "loop"
    /\ offlineActions = <<>>
    /\ syncPc' = "done"
    /\ UNCHANGED <<offlineStorage, offlineActions, processed, syncStart, syncs>>
    /\ syncFrame

\* Version 1.0.0 installed and active, a list of offline actions stored by
\* a page.  sw.js runs in a ServiceWorkerGlobalScope, which has no
\* localStorage; the scope with one is a window or a test harness loading
\* the same functions.
InitSync ==
    /\ InitNoCart
    /\ script = "part_001"
    /\ InitNavigation
    /\ localEvents = <<>>
    /\ projects = <<>> /\ shopItems = <<>>
    /\ loadPc = "fallback"
    /\ loadError = "Failed to fetch data"
    /\ caches = addAll(caches_open(<<>>, STATIC_CACHE), STATIC_CACHE,
                       STATIC_FILES, 1)
    /\ activeWorker = [version |-> "v1.0.0", number |-> 1]
    /\ waitingWorker = NoWorker
    /\ installs = 1
    /\ fetches = 0
    /\ served = NoFetch
    /\ localStorageDefined \in BOOLEAN
    /\ offlineStorage \in Queues
    /\ syncPc = "idle"
    /\ offlineActions = <<>>
    /\ processed = <<>>
    /\ syncStart = <<>>
    /\ syncs = 0

NextSync ==
    \/ \E tag \in SyncTags : SyncEvent(tag)
    \/ \E fetchOk \in BOOLEAN : ProcessAction(fetchOk)
    \/ SyncDone

SpecSync == InitSync /\ [][NextSync]_vars

\* ============================================================= properties
LastStage == Len(stages) - 1
Locked == script = "part_002"

\* C1: in the animation-locked navigator, while isAnimating is true no step
\* changes currentStage, emits a stage_navigation event, starts a reset
\* timer or begins a drag (touchstart leaves the drag origin alone); the
\* lock is released only by the pending reset timer.
C1_LockRejectsAll ==
    [][(Locked /\ isAnimating) =>
          /\ currentStage' = currentStage
          /\ events' = events
          /\ resetTimers' <= resetTimers
          /\ <<startX, startY, startTime>>' = <<startX, startY, startTime>>
          /\ (isDragging' => isDragging)
          /\ (~isAnimating' => resetTimers' = resetTimers - 1)]_vars

\* C1 witness: a transition to stage 2 is in flight, its timer pending, and
\* a touchstart that arrived meanwhile began no drag.
C1_Witness ==
    /\ Locked /\ isAnimating /\ resetTimers = 1
    /\ currentStage = 2
    /\ finger = "down" /\ ~isDragging

\* C2: currentStage is always an integer index of stages (as claimed).
C2_StageIsValidIndex == currentStage \in 0..LastStage

\* C3: isAnimating is true only while a reset timer of an accepted
\* goToStage is pending, so the lock is always released (as claimed).
C3_AnimatingHasPendingReset == (Locked /\ isAnimating) => resetTimers > 0

\* C4: goToStage(currentStage), called directly or through
\* snapToCurrentStage on resize, starts no transition and emits no event
\* (as claimed).
C4_GoToCurrentIsNoOp ==
    [][\A ok \in BOOLEAN :
          (ApiGoToStage(currentStage, ok) \/ handleResize(ok))
              => UNCHANGED <<isAnimating, events>>]_vars

\* C5: at the touchend of a drag (isDragging), with deltaX = currentX -
\* startX and elapsed = Date.now() - startTime, the drag commits iff
\* |deltaX| > 50 or |deltaX| / elapsed > 0.3; a committing drag with
\* deltaX < 0 moves to the next stage and with deltaX > 0 to the previous
\* one (when there is one and no transition is in flight); a drag that does
\* not commit leaves currentStage unchanged.
C5_Commits(deltaX, elapsed) ==
    /\ deltaX # NaN
    /\ \/ Abs(deltaX) > 50
       \/ 10 * Abs(deltaX) > 3 * elapsed

C5_CommitRule ==
    [][\A t \in EndTimes :
          LET deltaX == IF currentX = NaN \/ startX = NaN THEN NaN
                        ELSE currentX - startX
              elapsed == t - startTime
              free == currentStage \in 0..LastStage /\ (Locked => ~isAnimating)
          IN (isDragging /\ ((\E ok \in BOOLEAN : TouchEnd(t, ok)) \/ TouchEnd_p1(t)))
             => /\ (C5_Commits(deltaX, elapsed) /\ deltaX < 0 /\ free
                        /\ currentStage < LastStage)
                    => currentStage' = currentStage + 1
                /\ (C5_Commits(deltaX, elapsed) /\ deltaX > 0 /\ free
                        /\ currentStage > 0)
                    => currentStage' = currentStage - 1
                /\ ~C5_Commits(deltaX, elapsed) => currentStage' = currentStage]_vars

\* C5 witness: a 10 px drag to the left has ended and the navigator has
\* moved from main to vendor (velocity alone can commit it).
C5_Witness ==
    /\ Locked /\ finger = "up" /\ ~isDragging
    /\ startX = 110 /\ currentX = 100
    /\ currentStage = 1
    /\ events = <<NavEvent(0, 1)>>

\* C6: nextStage at the last stage and previousStage at stage 0 leave
\* currentStage unchanged; at any other stage, with no transition in
\* flight, they change it by exactly +1 and -1.
C6_NextPrevClamped ==
    [][/\ ((\E ok \in BOOLEAN : handleKeyboard("l", FALSE, ok))
              \/ handleKeyboardNavigation("l", FALSE))
          => /\ currentStage = LastStage => currentStage' = LastStage
             /\ (currentStage \in 0..(LastStage - 1) /\ ~isAnimating)
                    => currentStage' = currentStage + 1
       /\ ((\E ok \in BOOLEAN : handleKeyboard("ArrowLeft", FALSE, ok))
              \/ handleKeyboardNavigation("ArrowLeft", FALSE))
          => /\ currentStage = 0 => currentStage' = 0
             /\ (currentStage \in 1..LastStage /\ ~isAnimating)
                    => currentStage' = currentStage - 1]_vars

\* C6 witness: the navigator sits at the last stage after a call that
\* settled on it again (nextStage at the last stage snaps back).
C6_Witness ==
    /\ Locked /\ currentStage = LastStage
    /\ Len(events) = 2
    /\ events[2] = NavEvent(LastStage, LastStage)

\* C7: every change of currentStage from a to b appends exactly one
\* stage_navigation event {from_stage: stages[a], to_stage: stages[b],
\* stage_index: b}, and the event list only ever grows at its end.
C7_OneEventPerChange ==
    [][Locked =>
          /\ currentStage' # currentStage =>
                events' = Append(events,
                    [from_stage |-> StageName(currentStage),
                     to_stage |-> StageName(currentStage'),
                     stage_index |-> currentStage'])
          /\ Len(events') >= Len(events)
          /\ SubSeq(events', 1, Len(events)) = events]_vars

\* C7 witness: two committed transitions, main -> chill -> vendor, logged in
\* that order.
C7_Witness ==
    /\ Locked /\ currentStage = 1
    /\ events = <<NavEvent(0, 2), NavEvent(2, 1)>>

\* C8: a tap (touchstart then touchend with no touchmove between) never
\* changes currentStage (as claimed).
C8_TapNeverNavigates ==
    [][(finger = "down" /\ finger' = "up") => currentStage' = currentStage]_vars

\* C9: the touchend of a gesture whose last move is vertical
\* (|deltaX| <= |deltaY|) never changes currentStage (as claimed).
C9_VerticalNeverNavigates ==
    [][(/\ finger = "moved" /\ finger' = "up" /\ isDragging
        /\ currentX # NaN /\ currentY # NaN
        /\ Abs(currentX - startX) <= Abs(currentY - startY))
          => currentStage' = currentStage]_vars

\* The offset the drag formula gives for deltaX at stage, as a numerator
\* over OffsetDen: -100 * stage + deltaX / innerWidth * 100 * d, d = 0.3
\* past a boundary and 1 otherwise.
C10_Offset(stage, deltaX) ==
    IF stage = NaN THEN NaN
    ELSE LET d == IF (deltaX > 0 /\ stage = 0) \/ (deltaX < 0 /\ stage = LastStage)
                  THEN 3 ELSE 10
         IN -100 * stage * OffsetDen + deltaX * 100 * d

Searched == Len(searchInput) >= 2 /\ searchError # "TypeError"

\* case-insensitive literal containment, letter by letter
ContainsCI(text, q) ==
    \E off \in 0..(Len(text) - Len(q)) :
        \A k \in 1..Len(q) : Lower(text[off + k]) = Lower(q[k])

InTitle(rec, q) == ContainsCI(rec.title, q)
InDescription(rec, q) == ContainsCI(rec.description, q)
InCategory(rec, q) == rec.hasCategory /\ ContainsCI(rec.category, q)

Weight(b, w) == IF b THEN w ELSE 0

WeightedSum(rec, q) ==
    Weight(InTitle(rec, q), 10) + Weight(InDescription(rec, q), 5)
        + Weight(InCategory(rec, q), 8)

\* the records of the catalog, each named by its array and its id
CatalogKeys ==
    {<<"project", i>> : i \in DOMAIN projects} \cup {<<"shop", i>> : i \in DOMAIN shopItems}

RecordAt(key) == IF key[1] = "project" THEN projects[key[2]] ELSE shopItems[key[2]]

KeyOf(r) == <<r.type, r.id>>

\* position of a record in the encounter order: projects, then shop items
EncounterRank(key) == IF key[1] = "project" THEN key[2] ELSE Len(projects) + key[2]

\* the records that match searchInput
MatchingKeys == {key \in CatalogKeys : WeightedSum(RecordAt(key), searchInput) > 0}

ReturnedKeys == {KeyOf(results[i]) : i \in DOMAIN results}

RECURSIVE trimStart(_)
trimStart(str) ==
    IF str # <<>> /\ Head(str) = " " THEN trimStart(Tail(str)) ELSE str

RECURSIVE trimEnd(_)
trimEnd(str) ==
    IF str # <<>> /\ str[Len(str)] = " "
    THEN trimEnd(SubSeq(str, 1, Len(str) - 1)) ELSE str

trim(str) == trimEnd(trimStart(str))

\* C12: a query whose trimmed length is below 2 gives an empty result list;
\* nothing is scored and nothing is displayed.
C12_ShortQueryShowsNothing ==
    Len(trim(searchInput)) < 2 => results = <<>> /\ resultsHTML = ""

\* C13: searchContent scores the projects and the shop items as one pool;
\* every result has a score above 0 and names a matching record, and when at
\* most 10 records match, every one of them is returned.
C13_ExactlyTheMatches ==
    Searched =>
        /\ \A i \in DOMAIN results :
              results[i].score > 0 /\ KeyOf(results[i]) \in MatchingKeys
        /\ Cardinality(MatchingKeys) <= 10 => ReturnedKeys = MatchingKeys

\* a search over projects and shop items where some records match, some do
\* not, and results of both kinds come back
C13_Witness ==
    /\ Searched
    /\ Cardinality(MatchingKeys) <= 10
    /\ MatchingKeys # CatalogKeys
    /\ \E i \in DOMAIN results : results[i].type = "project"
    /\ \E i \in DOMAIN results : results[i].type = "shop"

\* C14: the results are in non-increasing order of score, and results of
\* equal score are in encounter order (projects before shop items, each in
\* catalog order).
C14_SortedAndStable ==
    Searched =>
        \A i \in DOMAIN results, j \in DOMAIN results :
            i < j =>
                /\ results[i].score >= results[j].score
                /\ results[i].score = results[j].score =>
                      EncounterRank(KeyOf(results[i])) < EncounterRank(KeyOf(results[j]))

\* results with two different scores, a tie between two projects whose
\* records a higher-scoring record separates, and a tie of a project and a
\* shop item
C14_Witness ==
    /\ Searched
    /\ \E i \in DOMAIN results, j \in DOMAIN results :
          results[i].score > results[j].score
    /\ \E i \in DOMAIN results, j \in DOMAIN results :
          /\ i < j /\ results[i].score = results[j].score
          /\ results[i].type = "project" /\ results[j].type = "shop"
    /\ \E i \in DOMAIN results, j \in DOMAIN results :
          /\ i < j /\ results[i].score = results[j].score
          /\ results[i].type = "project" /\ results[j].type = "project"
          /\ results[j].id > results[i].id + 1

\* C15: at most 10 results in all, projects and shop items together, and
\* they are the head of the ranked list: no record left out scores higher
\* than a returned one, or ties with one it was encountered before.
C15_TopTen ==
    Searched =>
        /\ Len(results) <= 10
        /\ \A key \in MatchingKeys \ ReturnedKeys :
              \A i \in DOMAIN results :
                 LET score == WeightedSum(RecordAt(key), searchInput)
                 IN /\ score <= results[i].score
                    /\ score = results[i].score =>
                          EncounterRank(key) > EncounterRank(KeyOf(results[i]))

\* more than 10 records match, no more than 10 of them projects, and 10
\* results of both kinds come back
C15_Witness ==
    /\ Searched
    /\ Cardinality(MatchingKeys) > 10
    /\ Cardinality({key \in MatchingKeys : key[1] = "project"}) <= 10
    /\ Len(results) = 10
    /\ \E i \in DOMAIN results : results[i].type = "shop"

\* C16: searchContent never raises: an empty catalog gives an empty list and
\* a record without category scores by its title and description alone.
C16_NeverRaises ==
    /\ searchError # "TypeError"
    /\ (Len(searchInput) >= 2 /\ projects = <<>> /\ shopItems = <<>>)
          => results = <<>>
    /\ Searched =>
          \A i \in DOMAIN results :
              LET rec == RecordAt(KeyOf(results[i]))
              IN ~rec.hasCategory =>
                    results[i].score = Weight(InTitle(rec, searchInput), 10)
                                        + Weight(InDescription(rec, searchInput), 5)

\* a search that returned a record without category next to one with it
C16_Witness ==
    /\ Searched
    /\ \E i \in DOMAIN results : ~RecordAt(KeyOf(results[i])).hasCategory
    /\ \E i \in DOMAIN results : results[i].score >= 8 + 10

\* C17: for every query of length 2 or more, with or without regular
\* expression metacharacters, handleSearch completes without raising.
C17_SearchFlowNeverRaises ==
    Len(searchInput) >= 2 => searchError = ""

\* C18: whichever step of loadData fails, the catch block leaves projects
\* and shopItems both empty and loadData returns normally.
C18_FailureEmptiesBoth ==
    /\ loadPc = "fallback" => projects = <<>> /\ shopItems = <<>>
    /\ loadError # "" <=> loadPc = "fallback"

\* products.json failed to parse after projects.json had been assigned
C18_Witness ==
    /\ loadPc = "fallback"
    /\ loadError = "products.json does not parse"

\* C19: a search leaves this.projects and this.shopItems as they were, in
\* order and in every field.
C19_SearchLeavesCatalog ==
    [][\A value \in Queries :
          SearchInput(value) => projects' = projects /\ shopItems' = shopItems]_vars

\* a search that returned results from a catalog of several records
C19_Witness ==
    /\ Searched
    /\ results # <<>>
    /\ Len(projects) >= 2 /\ Len(shopItems) >= 2

\* ----------------------------------------------------- history properties
\* C20: at every point the stage named by the current history entry (main
\* for the initial entry) is stages[currentStage], so Back and Forward show
\* the stages that were shown before.
C20_HistoryEntryIsCurrentStage ==
    script = "part_001" => history[historyPos] = StageName(currentStage)

\* --------------------------------------------------- keyboard properties
\* C21: a keydown whose target is an INPUT or TEXTAREA never changes
\* currentStage, whichever key it is, in either draft.
C21_FieldKeysNeverNavigate ==
    [][\A key \in Keys :
          /\ (\E trackOk \in BOOLEAN : handleKeyboard(key, TRUE, trackOk))
                => currentStage' = currentStage
          /\ handleKeyboardNavigation(key, TRUE)
                => currentStage' = currentStage]_vars

\* ----------------------------------------------------- analytics properties
\* the last n elements of a list, all of it when it is shorter
LastOf(list, n) ==
    [i \in 1..(IF Len(list) < n THEN Len(list) ELSE n) |->
        list[Len(list) - (IF Len(list) < n THEN Len(list) ELSE n) + i]]

\* C24: the stored analytics log never holds more than 100 events; every
\* event trackEvent stores goes to the end of the log, and the log is then
\* the most recent 100 of them in the order tracked, the oldest dropped
\* first.
C24_LogKeepsLastHundred ==
    [][/\ Len(localEvents') <= 100
       /\ \A eventName \in EventNames, now \in Timestamps :
             TrackEvent(eventName, now, TRUE) =>
                localEvents' = LastOf(Append(localEvents,
                                   [event_name |-> eventName, timestamp |-> now]), 100)]_vars

\* a full log that has dropped its two oldest events for two new ones
C24_Witness ==
    /\ Len(localEvents) = 100
    /\ localEvents[1].timestamp = 3
    /\ localEvents[99].event_name # "page_view"
    /\ localEvents[100].event_name # "page_view"

\* --------------------------------------------------------- cart properties
UniqueIds(items) ==
    \A i \in DOMAIN items, j \in DOMAIN items : i # j => items[i].id # items[j].id

InCart(id) == \E i \in DOMAIN cart : cart[i].id = id

\* C22: starting from a stored cart with unique ids, no two cart entries
\* ever share an id; adding a build that is in the cart leaves the number of
\* entries unchanged, and adding a project that is not loaded leaves the
\* cart unchanged.
C22_UniqueCartIds ==
    [][/\ UniqueIds(cart')
       /\ \A projectId \in ProjectIds, buildType \in BuildTypes :
             (\/ AddToCart_p1(projectId, buildType)
              \/ \E trackOk \in BOOLEAN : AddToCart(projectId, buildType, trackOk))
                => /\ InCart(cartId(projectId, buildType)) => Len(cart') = Len(cart)
                   /\ (\A i \in DOMAIN projects : projects[i].id # projectId)
                         => cart' = cart]_vars

\* every build of the catalog has been added
C22_Witness ==
    /\ cartPc = "ready"
    /\ Len(cart) = 2 * MaxCartProjects

C26_CartUIReflectsCart ==
    cartPc = "ready" =>
        /\ cartBadge = Len(cart)
        /\ checkoutDisabled <=> (cart = <<>>)
        /\ cartItems = idsOf(cart)

\* ------------------------------------------------ indexed search properties
\* the non-empty whitespace-separated words of a query
WordsOf(q) ==
    {SubSeq(q, i, j) : i \in 1..Len(q), j \in 1..Len(q)} \cap
    {w \in {SubSeq(q, i, j) : i \in 1..Len(q), j \in 1..Len(q)} :
        /\ w # <<>>
        /\ \A k \in 1..Len(w) : w[k] # " "}

MaximalWordsOf(q) ==
    {w \in WordsOf(q) :
        \E i \in 1..Len(q) :
            /\ SubSeq(q, i, i + Len(w) - 1) = w
            /\ i = 1 \/ q[i - 1] = " "
            /\ i + Len(w) - 1 = Len(q) \/ q[i + Len(w)] = " "}

\* a word occurs in the title, description, category or difficulty of an
\* index entry
OccursIn(item, w) ==
    \/ ContainsCI(item.title, w)
    \/ ContainsCI(item.description, w)
    \/ item.hasCategory /\ ContainsCI(item.category, w)
    \/ ContainsCI(item.difficulty, w)

IndexEntry(r) ==
    LET index == searchIndex
    IN CHOOSE item \in {index[i] : i \in DOMAIN index} :
          item.type = r.type /\ item.id = r.id

\* C25: performSearch returns an item only if some non-empty word of the
\* query occurs in its title, description, category or difficulty; a query
\* none of whose words occurs in any item gives an empty list, with or
\* without whitespace at its ends.
C25_ResultsMatchSomeWord ==
    (script = "part_002" /\ Len(searchInput) >= 2) =>
        \A i \in DOMAIN results :
            \E w \in MaximalWordsOf(searchInput) : OccursIn(IndexEntry(results[i]), w)

\* ---- service worker caches
\* a step in which the active worker handled a fetch event
FetchStep == fetches' = fetches + 1
EntriesOf(cs) ==
    UNION { { [cache |-> cs[i].name, response |-> r] : r \in cs[i].entries }
            : i \in 1..Len(cs) }
\* the responses the step wrote to a cache
Written == EntriesOf(caches') \ EntriesOf(caches)
\* the request had a cached entry when the event arrived
Hit(request) == isDefined(caches_match(caches, request.url))
CacheFirst(request) ==
    (request.sameOrigin /\ Hit(request)) =>
        /\ served'.source = "cache"
        /\ ~served'.network
        /\ served'.response = caches_match(caches, request.url)
OnlyGoodCached(request) ==
    \A w \in Written :
        /\ w.response.url = request.url
        /\ request.sameOrigin
        /\ ~Hit(request)
        /\ served'.network
        /\ w.response.status = 200
        /\ w.response.type = "basic"
NetworkFirst(request) ==
    activeWorker.version = "v1.0.0" /\ startsWithApi(request.path)

\* C27 as stated: every fetch event is handled cache-first (a same-origin
\* request with a cached entry is answered with that entry and no network
\* request is made), and a response is written to a cache only when it was
\* fetched for a same-origin request that missed the cache and has status
\* 200 and type basic.
C27_CacheFirstOnlyGood ==
    [][FetchStep =>
          CacheFirst(served'.request) /\ OnlyGoodCached(served'.request)]_vars

\* C27 amended: the same for every fetch event except version 1.0.0's
\* /api/ requests, which that version answers network-first.
C27_CacheFirstExceptApi ==
    [][(FetchStep /\ ~NetworkFirst(served'.request)) =>
          CacheFirst(served'.request) /\ OnlyGoodCached(served'.request)]_vars

\* a hashed asset answered from the entry an earlier miss had cached
C27_Witness ==
    /\ served.request.url = "/assets/index-4f2a.js"
    /\ served.source = "cache"
    /\ ~served.network
    /\ served.response.worker = served.worker

\* the cache names a version's activate listener treats as current
CurrentCaches(version) ==
    IF version = "v1.0.0" THEN {STATIC_CACHE, DYNAMIC_CACHE} ELSE {CACHE_NAME}
\* a step in which a worker's activate listener ran to its end
ActivateStep == activeWorker' # activeWorker
CacheNames(cs) == {cs[i].name : i \in 1..Len(cs)}

\* C28: when a worker's activate listener completes, every cache whose name
\* is not one of that version's cache names is gone and each of its own
\* caches is still there with its contents; and every response a worker
\* serves from a cache afterwards was cached by that worker or a later one,
\* never by a worker installed before it.
C28_OldCachesDeleted ==
    [][/\ ActivateStep =>
            /\ CacheNames(caches') =
                  CacheNames(caches) \cap CurrentCaches(activeWorker'.version)
            /\ \A i \in 1..Len(caches) :
                  caches[i].name \in CurrentCaches(activeWorker'.version) =>
                      \E j \in 1..Len(caches') : caches'[j] = caches[i]
       /\ (FetchStep /\ served'.handled /\ served'.source = "cache"
              /\ isDefined(served'.response)) =>
            served'.response.worker >= activeWorker.number]_vars

\* version 3.0.0 has activated over version 1.0.0's caches, only its own
\* cache is left, and it has since answered a request from that cache
C28_Witness ==
    /\ activeWorker.version = "v3.0.0"
    /\ activeWorker.number > 1
    /\ waitingWorker = NoWorker
    /\ CacheNames(caches) = {CACHE_NAME}
    /\ served.worker = activeWorker.number
    /\ served.source = "cache"
    /\ isDefined(served.response)

\* C29: whenever a navigation request has no cached entry and the network
\* cannot be reached, the fetch handler answers with the cached root
\* document '/', and that is a defined response, whatever was cached before.
C29_OfflineFallbackIsRoot ==
    [][(/\ FetchStep
        /\ served'.request.mode = "navigate"
        /\ ~Hit(served'.request)
        /\ ~served'.online) =>
          /\ served'.handled
          /\ ~served'.rejected
          /\ isDefined(served'.response)
          /\ served'.response = caches_match(caches, "/")]_vars

\* ---- background sync
IdsOf(actions) == [i \in 1..Len(actions) |-> actions[i].id]
\* the loop handled the action and its processing failed
ProcessingFailed(action) ==
    \E i \in 1..Len(processed) :
        processed[i].id = action.id /\ ~processed[i].ok

\* C30: when handleBackgroundSync completes it has processed the actions
\* that were queued when the sync event arrived, in queue order, and the
\* stored queue holds exactly those whose processing failed, in their
\* original order.
C30_QueueHoldsExactlyTheFailed ==
    syncPc = "done" =>
        /\ IdsOf(processed) = IdsOf(syncStart)
        /\ offlineStorage = SelectSeq(syncStart, ProcessingFailed)

====
